---------------------------- MODULE Spec2Model ----------------------------
(***************************************************************************)
(* A model of the Kanoodle solver: the shape geometry and piece catalog    *)
(* (pieces.rs), the layered board (layer.rs, board.rs), the placement      *)
(* cursor (placements.rs) and the solver driver (solver.rs).               *)
(*                                                                         *)
(* Piece names are numbers: 1 is 'A', 2 is 'B', ... 12 is 'L'.  Positions  *)
(* are <<layer, row, col>>, counted from 0 as in the source.  A shape is   *)
(* a record [cells, is_3d] where cells is the set of positions whose bit   *)
(* is set in the shape's ShapeLayers.                                      *)
(***************************************************************************)
EXTENDS Integers, Sequences, FiniteSets, TLC

\* ------------------------------------------------------------------------
\* Shape geometry (pieces.rs)
\* ------------------------------------------------------------------------

\* define_layers!(ShapeLayers, ...): five square layers of side 5, 4, 3, 2, 1.
SHAPE_LAYER_COUNT == 5

ShapeLayerSize(layer) == SHAPE_LAYER_COUNT - layer

ShapeCells ==
    { <<l, r, c>> : l \in 0..(SHAPE_LAYER_COUNT - 1), r \in 0..4, c \in 0..4 }

AllShapeCells ==
    { p \in ShapeCells : p[2] < ShapeLayerSize(p[1]) /\ p[3] < ShapeLayerSize(p[1]) }

Shape(cells, is_3d) == [cells |-> cells, is_3d |-> is_3d]

\* The index transformers handed to transform_each_layer_2d, by name.
transformer(kind, row, col, size) ==
    CASE kind = "rotate"  -> <<size - col, row>>
      [] kind = "reflect" -> <<col, row>>
      [] kind = "left"    -> <<row, IF col = size THEN 0 ELSE col + 1>>
      [] kind = "up"      -> <<IF row = size THEN 0 ELSE row + 1, col>>
      [] kind = "down"    -> <<IF row = 0 THEN size ELSE row - 1, col>>

\* to_be_transformed[layer][row][col] = layers[layer][transformer(row, col, size)]
transform_each_layer_2d(layers, kind) ==
    { p \in AllShapeCells :
        LET t == transformer(kind, p[2], p[3], ShapeLayerSize(p[1]) - 1)
        IN  <<p[1], t[1], t[2]>> \in layers }

\* A rotation by 90 degrees the other way round.
rotate_counter_clockwise(shape) ==
    Shape({ p \in AllShapeCells :
              <<p[1], p[3], ShapeLayerSize(p[1]) - 1 - p[2]>> \in shape.cells },
          shape.is_3d)

\* A rotation that turns every layer as if it had the side of the first one.
rotate_with_base_size(shape) ==
    Shape({ p \in AllShapeCells :
              <<p[1], ShapeLayerSize(0) - 1 - p[3], p[2]>> \in shape.cells },
          shape.is_3d)

rotate(shape) == Shape(transform_each_layer_2d(shape.cells, "rotate"), shape.is_3d)

\* A mirror image across the vertical axis of each layer.
reflect_horizontally(shape) ==
    Shape({ p \in AllShapeCells :
              <<p[1], p[2], ShapeLayerSize(p[1]) - 1 - p[3]>> \in shape.cells },
          shape.is_3d)

reflect(shape) == Shape(transform_each_layer_2d(shape.cells, "reflect"), shape.is_3d)

\* The three closures handed to shift: what to do next, looking at the layers.
next_instruction(mode, ls) ==
    CASE mode = "up" ->
           IF \A p \in ls : p[2] # 0 THEN "up" ELSE "stop"
      [] mode = "left" ->
           IF \A p \in ls : p[3] # 0 THEN "left" ELSE "stop"
      [] mode = "down" ->
           IF \E i \in 0..3 : <<0, i, i + 1>> \in ls THEN "down" ELSE "stop"

\* max_size * 4 iterations are allowed before shift gives up.
MAX_SHIFT_ITERATIONS == 20

\* The loop of shift: the instruction is computed on dest, the shifted layers
\* are written to dest from source, and the two are swapped.  When the budget
\* runs out the source panics ("Detected infinite loop in shift logic").
RECURSIVE shift_loop(_, _, _, _)
shift_loop(source, dest, mode, remaining_iterations) ==
    IF remaining_iterations = 0
    THEN [panic |-> TRUE, layers |-> dest]
    ELSE LET instr == next_instruction(mode, dest)
         IN  IF instr = "stop"
             THEN [panic |-> FALSE, layers |-> dest]
             ELSE shift_loop(transform_each_layer_2d(source, instr), source,
                             mode, remaining_iterations - 1)

shift(layers, mode) == shift_loop(layers, layers, mode, MAX_SHIFT_ITERATIONS).layers

\* A shift that gives up after three iterations.
shift_panics_after_three(layers, mode) == shift_loop(layers, layers, mode, 3).panic

shift_panics(layers, mode) == shift_loop(layers, layers, mode, MAX_SHIFT_ITERATIONS).panic

\* A snap that shifts up and leaves the columns where they are.
snap_to_top(shape) == Shape(shift(shape.cells, "up"), shape.is_3d)

snap_to_top_left(shape) == Shape(shift(shift(shape.cells, "up"), "left"), shape.is_3d)

\* An erection that leaves the first diagonal below the main one out.
erect_with_gap(shape) ==
    IF shape.is_3d THEN shape
    ELSE LET aligned == snap_to_top_left(shape)
             layer0  == shift(aligned.cells, "down")
         IN  Shape({ <<0, p[2], p[3]>> : p \in { q \in layer0 : q[1] = 0 /\ q[2] = q[3] } }
                   \cup
                   { <<k, i, i>> : <<k, i>> \in
                        { x \in (2..4) \X (0..3) :
                            x[2] < ShapeLayerSize(x[1]) /\ <<0, x[1] + x[2], x[2]>> \in layer0 } },
                   TRUE)

\* An erection that copies the diagonals to the upper layers and clears nothing.
erect_keeping_layer0(shape) ==
    IF shape.is_3d THEN shape
    ELSE LET aligned == snap_to_top_left(shape)
             layer0  == shift(aligned.cells, "down")
         IN  Shape({ q \in layer0 : q[1] = 0 }
                   \cup
                   { <<k, i, i>> : <<k, i>> \in
                        { x \in (1..4) \X (0..3) :
                            x[2] < ShapeLayerSize(x[1]) /\ <<0, x[1] + x[2], x[2]>> \in layer0 } },
                   TRUE)

\* erect without the shift that brings the shape below the diagonal.
erect_without_shift(shape) ==
    IF shape.is_3d THEN shape
    ELSE LET aligned == snap_to_top_left(shape)
         IN  Shape({ <<0, p[2], p[3]>> : p \in { q \in aligned.cells : q[1] = 0 /\ q[2] = q[3] } }
                   \cup
                   { <<k, i, i>> : <<k, i>> \in
                        { x \in (1..4) \X (0..3) :
                            x[2] < ShapeLayerSize(x[1])
                            /\ <<0, x[1] + x[2], x[2]>> \in aligned.cells } },
                   TRUE)

\* Layer 0 keeps its main diagonal; the k-th diagonal below it becomes layer k.
erect(shape) ==
    IF shape.is_3d THEN shape
    ELSE LET aligned == snap_to_top_left(shape)
             layer0  == shift(aligned.cells, "down")
         IN  Shape({ <<0, p[2], p[3]>> : p \in { q \in layer0 : q[1] = 0 /\ q[2] = q[3] } }
                   \cup
                   { <<k, i, i>> : <<k, i>> \in
                        { x \in (1..4) \X (0..3) :
                            x[2] < ShapeLayerSize(x[1]) /\ <<0, x[1] + x[2], x[2]>> \in layer0 } },
                   TRUE)

\* add_rotated_loop inserting the shapes as they are, not snapped.
RECURSIVE add_rotated_loop_without_snap(_, _)
add_rotated_loop_without_snap(next, i) ==
    IF i = 0 THEN {}
    ELSE { next }
         \cup (IF ~next.is_3d THEN add_rotated_loop_without_snap(erect(next), 4) ELSE {})
         \cup add_rotated_loop_without_snap(rotate(next), i - 1)

\* add_rotated_loop without the erected forms.
RECURSIVE add_rotated_loop_flat(_, _)
add_rotated_loop_flat(next, i) ==
    IF i = 0 THEN {}
    ELSE { snap_to_top_left(next) } \cup add_rotated_loop_flat(rotate(next), i - 1)

\* The four rotations of a shape, normalised, each with the rotations of its
\* erected form when it is flat.
RECURSIVE add_rotated_loop(_, _)
add_rotated_loop(next, i) ==
    IF i = 0 THEN {}
    ELSE { snap_to_top_left(next) }
         \cup (IF ~next.is_3d THEN add_rotated_loop(erect(next), 4) ELSE {})
         \cup add_rotated_loop(rotate(next), i - 1)

add_rotated_orientations(shape) == add_rotated_loop(shape, 4)

add_mirrored_orientations(shape) == add_rotated_orientations(reflect(shape))

Pow10(n) == CASE n = 0 -> 1 [] n = 1 -> 10 [] n = 2 -> 100 [] n = 3 -> 1000 [] n = 4 -> 10000

RECURSIVE SumOver(_, _)
SumOver(S, f) ==
    IF S = {} THEN 0
    ELSE LET x == CHOOSE y \in S : TRUE IN f[x] + SumOver(S \ {x}, f)

\* to_int as a u64 is  low + 10000 * high  with
\*   low  = the layer-0 sum (layer_bonus 1),
\*   high = the sums of layers 1..4 (layer_bonus 10000, 10^6, 10^8, 10^10) over 10000.
\* It is kept as the pair <<high + low \div 10000, low % 10000>>, which orders as
\* the u64 does and stays within the model checker's integers.
to_int(shape) ==
    LET weight == [p \in AllShapeCells |->
                     (p[3] + 1) * Pow10(p[2]) *
                     (CASE p[1] = 0 -> 1 [] p[1] = 1 -> 1 [] p[1] = 2 -> 100
                        [] p[1] = 3 -> 10000 [] p[1] = 4 -> 1000000)]
        low  == SumOver({ p \in shape.cells : p[1] = 0 }, weight)
        high == SumOver({ p \in shape.cells : p[1] > 0 }, weight)
    IN  <<high + (low \div 10000), low % 10000>>

IntLess(a, b) == a[1] < b[1] \/ (a[1] = b[1] /\ a[2] < b[2])

\* vec.sort_by(to_int): ascending; among equal keys the order is that of the
\* hash set's iteration, here the one CHOOSE picks.
RECURSIVE sort_by_to_int(_)
sort_by_to_int(set) ==
    IF set = {} THEN <<>>
    ELSE LET first == CHOOSE s \in set : \A t \in set : ~IntLess(to_int(t), to_int(s))
         IN  <<first>> \o sort_by_to_int(set \ {first})

\* cells: the set of <<row, col>> of layer 0 of the parsed base shape.
generate_orientations(cells) ==
    LET shape == Shape({ <<0, p[1], p[2]>> : p \in cells }, FALSE)
    IN  sort_by_to_int(add_rotated_orientations(shape) \cup add_mirrored_orientations(shape))

\* orientations.get(index) over the runs of the program: the sort is stable and
\* the hash set it sorts iterates in an order that differs from run to run, so
\* shapes with equal to_int can stand in either order.  The shapes that can be
\* at the index; none when the index is past the list.
orientations_get(orientations, index) ==
    { orientations[i] : i \in
        { j \in DOMAIN orientations :
            /\ index < Len(orientations)
            /\ Cardinality({ k \in DOMAIN orientations :
                    IntLess(to_int(orientations[k]), to_int(orientations[j])) }) <= index
            /\ index < Cardinality({ k \in DOMAIN orientations :
                    ~IntLess(to_int(orientations[j]), to_int(orientations[k])) }) } }


\* ------------------------------------------------------------------------
\* Piece catalog (pieces.rs, PIECES)
\* ------------------------------------------------------------------------

\* Base shapes, as the <<row, col>> cells Shape::parse reads from the literal.
\* BaseA .. BaseL are the twelve pieces of PIECES; the domino "XX" and the
\* straight tromino "XXX" are the trivial pieces of the small synthetic catalogs.
BaseF == { <<0, 0>>, <<1, 0>>, <<1, 1>> }

BaseK == { <<0, 0>>, <<0, 1>>, <<1, 0>>, <<1, 1>> }

BaseI == { <<0, 0>>, <<0, 1>>, <<1, 1>>, <<2, 0>>, <<2, 1>> }

BaseA == { <<0, 0>>, <<1, 0>>, <<1, 1>>, <<1, 2>> }

BaseB == { <<0, 0>>, <<0, 1>>, <<1, 0>>, <<1, 1>>, <<1, 2>> }

BaseC == { <<0, 1>>, <<1, 1>>, <<2, 1>>, <<3, 0>>, <<3, 1>> }

BaseD == { <<0, 0>>, <<0, 1>>, <<0, 2>>, <<0, 3>>, <<1, 2>> }

BaseE == { <<0, 0>>, <<0, 1>>, <<1, 1>>, <<1, 2>>, <<1, 3>> }

BaseG == { <<0, 0>>, <<0, 1>>, <<0, 2>>, <<1, 2>>, <<2, 2>> }

BaseH == { <<0, 0>>, <<0, 1>>, <<1, 1>>, <<1, 2>>, <<2, 2>> }

BaseJ == { <<0, 0>>, <<0, 1>>, <<0, 2>>, <<0, 3>> }

BaseL == { <<0, 1>>, <<1, 0>>, <<1, 1>>, <<1, 2>>, <<2, 1>> }

BaseDomino == { <<0, 0>>, <<0, 1>> }

BaseTromino == { <<0, 0>>, <<0, 1>>, <<0, 2>> }

\* Board geometries: define_layers!(Rectangle, ...) is one layer; 
\* define_layers!(Pyramid, ...) is square layers of side n, n-1, ..., 1.
Rectangle(rows, cols) == [kind |-> "Rectangle", dims |-> << <<rows, cols>> >>]

Pyramid(base) == [kind |-> "Pyramid", dims |-> [l \in 1..base |-> <<base - l + 1, base - l + 1>>]]

\* The scaled-down programs: a board geometry with a catalog whose pieces have,
\* together, as many cells as the board (as the 12 pieces and the 55 cells do).
\* The last one is the program itself: the 5 x 11 rectangle and the twelve pieces.
\* Piece names are the positions in the catalog: 1 = 'A', 2 = 'B', ...
Scenarios ==
    << [board_type |-> Rectangle(2, 2), bases |-> <<BaseDomino, BaseDomino>>],
       [board_type |-> Rectangle(2, 3), bases |-> <<BaseF, BaseF>>],
       [board_type |-> Pyramid(2),      bases |-> <<BaseF, BaseDomino>>],
       [board_type |-> Rectangle(2, 3), bases |-> <<BaseF, BaseTromino>>],
       [board_type |-> Rectangle(2, 4), bases |-> <<BaseK, BaseDomino, BaseDomino>>],
       [board_type |-> Pyramid(3),      bases |-> <<BaseTromino, BaseF, BaseF, BaseI>>],
       [board_type |-> Rectangle(5, 11),
        bases |-> <<BaseA, BaseB, BaseC, BaseD, BaseE, BaseF,
                    BaseG, BaseH, BaseI, BaseJ, BaseK, BaseL>>] >>

SmallScenarios == { 1, 2, 3, 4, 5 }

PyramidScenarios == { 6 }

KanoodleScenarios == { 7 }

\* Piece::parse for the first n definitions of a catalog: name -> orientations.
RECURSIVE parse_pieces(_, _)
parse_pieces(bases, n) ==
    IF n = 0 THEN <<>>
    ELSE Append(parse_pieces(bases, n - 1), generate_orientations(bases[n]))

\* The catalogs of the first s scenarios.
RECURSIVE catalogs(_)
catalogs(s) ==
    IF s = 0 THEN <<>>
    ELSE Append(catalogs(s - 1), parse_pieces(Scenarios[s].bases, Len(Scenarios[s].bases)))

\* PIECES, computed once: scenario -> name -> orientations.
PIECES == catalogs(Len(Scenarios))

NoShape == Shape({}, FALSE)

\* A lookup that knows only the first orientation of every piece.
get_piece_orientation_first_only(pieces, piece_name, orientation_index) ==
    IF piece_name \in DOMAIN pieces /\ orientation_index < 1
    THEN pieces[piece_name][orientation_index + 1]
    ELSE NoShape

\* A lookup that misses the last orientation of every piece.
get_piece_orientation_without_last(pieces, piece_name, orientation_index) ==
    IF piece_name \in DOMAIN pieces /\ orientation_index + 1 < Len(pieces[piece_name])
    THEN pieces[piece_name][orientation_index + 1]
    ELSE NoShape

\* Option<&Shape>: NoShape stands for Option::None.
get_piece_orientation(pieces, piece_name, orientation_index) ==
    IF piece_name \in DOMAIN pieces /\ orientation_index < Len(pieces[piece_name])
    THEN pieces[piece_name][orientation_index + 1]
    ELSE NoShape

\* ------------------------------------------------------------------------
\* Layered grid and board (layer.rs, board.rs)
\* ------------------------------------------------------------------------

EMPTY_SLOT == 0

NoPosition == <<-1, -1, -1>>

BoardCells(dims) ==
    UNION { { <<l - 1, r, c>> : r \in 0..(dims[l][1] - 1), c \in 0..(dims[l][2] - 1) } :
            l \in DOMAIN dims }

layer_count(dims) == Len(dims)

dimensions(dims, layer) == dims[layer + 1]

PosLess(p, q) ==
    \/ p[1] < q[1]
    \/ p[1] = q[1] /\ p[2] < q[2]
    \/ p[1] = q[1] /\ p[2] = q[2] /\ p[3] < q[3]

\* A scan that stops after the first layer.
find_in_first_layer(layers, val) ==
    LET hits == { p \in DOMAIN layers : p[1] = 0 /\ layers[p] = val }
    IN  IF hits = {} THEN NoPosition
        ELSE CHOOSE p \in hits : \A q \in hits : p = q \/ PosLess(p, q)

\* Layers::find: the first cell holding val, scanning layers, rows, columns.
find(layers, val) ==
    LET hits == { p \in DOMAIN layers : layers[p] = val }
    IN  IF hits = {} THEN NoPosition
        ELSE CHOOSE p \in hits : \A q \in hits : p = q \/ PosLess(p, q)

Default(dims) == [p \in BoardCells(dims) |-> EMPTY_SLOT]

\* Board::new
new_board(dims) == [layers |-> Default(dims), next_pos |-> <<0, 0, 0>>]

\* A check that takes every board for solved.
solved_always(board) == TRUE

solved(board) == find(board.layers, EMPTY_SLOT) = NoPosition

\* Offsets that take the corner of the shape's grid for its first cell.
corner_offsets(shape) == <<0, 0>>

\* The first set cell of layer 0, rows then columns; (0, 0) when there is none.
calculate_shape_offsets(shape) ==
    LET set0 == { p \in shape.cells : p[1] = 0 }
        p0   == CHOOSE p \in set0 : \A q \in set0 : p = q \/ PosLess(p, q)
    IN  IF set0 = {} THEN <<0, 0>> ELSE <<p0[2], p0[3]>>

\* usize arithmetic wraps at 2^64; a modulus far above every board dimension
\* stands for it here.
USIZE_MODULUS == 1073741824

\* A subtraction that stops at zero instead of wrapping.
saturating_sub(a, b) == IF a < b THEN 0 ELSE a - b

wrapping_sub(a, b) == (a - b) % USIZE_MODULUS

wrapping_add(a, b) == (a + b) % USIZE_MODULUS

\* A fit check that does not look at the shape's layers above the board's last.
RECURSIVE does_shape_fit_from_ignoring_height(_, _, _, _, _)
does_shape_fit_from_ignoring_height(dims, layers, pos, shape, shape_layer_index) ==
    IF shape_layer_index >= SHAPE_LAYER_COUNT THEN TRUE
    ELSE
      LET offs        == calculate_shape_offsets(shape)
          board_layer == pos[1] + shape_layer_index
          parts       == { p \in shape.cells : p[1] = shape_layer_index }
      IN  IF board_layer >= layer_count(dims)
          THEN TRUE
          ELSE LET count == dimensions(dims, board_layer)
                   target(p) == << board_layer,
                                   wrapping_sub(pos[2] + p[2], offs[1]),
                                   wrapping_sub(pos[3] + p[3], offs[2]) >>
               IN  IF \E p \in parts :
                        \/ target(p)[2] >= count[1]
                        \/ target(p)[3] >= count[2]
                        \/ layers[target(p)] # EMPTY_SLOT
                   THEN FALSE
                   ELSE IF ~shape.is_3d \/ parts = {}
                        THEN TRUE
                        ELSE does_shape_fit_from_ignoring_height(dims, layers, pos, shape,
                                                                 shape_layer_index + 1)

\* The loop of does_shape_fit over the shape's layers, from shape_layer_index on,
\* with the shape's offset cell put at position pos.
RECURSIVE does_shape_fit_from(_, _, _, _, _)
does_shape_fit_from(dims, layers, pos, shape, shape_layer_index) ==
    IF shape_layer_index >= SHAPE_LAYER_COUNT THEN TRUE
    ELSE
      LET offs        == calculate_shape_offsets(shape)
          board_layer == pos[1] + shape_layer_index
          parts       == { p \in shape.cells : p[1] = shape_layer_index }
      IN  IF board_layer >= layer_count(dims)
          THEN parts = {}
          ELSE LET count == dimensions(dims, board_layer)
                   target(p) == << board_layer,
                                   wrapping_sub(pos[2] + p[2], offs[1]),
                                   wrapping_sub(pos[3] + p[3], offs[2]) >>
               IN  IF \E p \in parts :
                        \/ target(p)[2] >= count[1]
                        \/ target(p)[3] >= count[2]
                        \/ layers[target(p)] # EMPTY_SLOT
                   THEN FALSE
                   ELSE IF ~shape.is_3d \/ parts = {}
                        THEN TRUE
                        ELSE does_shape_fit_from(dims, layers, pos, shape, shape_layer_index + 1)

does_shape_fit_at(dims, board, shape, pos) ==
    does_shape_fit_from(dims, board.layers, pos, shape, 0)

does_shape_fit(dims, board, shape) == does_shape_fit_at(dims, board, shape, board.next_pos)

\* The shape layers add_shape writes: layer 0 alone for a flat shape, and for a
\* 3-D shape every layer up to and including the first one with no part.
RECURSIVE WrittenLayers(_, _)
WrittenLayers(shape, k) ==
    IF k >= SHAPE_LAYER_COUNT THEN {}
    ELSE {k} \cup (IF ~shape.is_3d \/ { p \in shape.cells : p[1] = k } = {}
                   THEN {}
                   ELSE WrittenLayers(shape, k + 1))

\* The board cells add_shape writes for a shape whose offset cell goes to pos.
TargetCells(shape, pos) ==
    LET offs == calculate_shape_offsets(shape)
    IN  { << pos[1] + p[1],
             wrapping_add(wrapping_sub(p[2], offs[1]), pos[2]),
             wrapping_add(wrapping_sub(p[3], offs[2]), pos[3]) >> :
          p \in { q \in shape.cells : q[1] \in WrittenLayers(shape, 0) } }

\* add_shape computes shape_row - shape_row_offset (and the same for columns)
\* before it adds the anchor: below zero for an occupied cell that stands above
\* or left of the shape's offset cell.  A build with overflow checks panics
\* there; one without them wraps, and the sum comes out as in TargetCells.
add_shape_overflows(shape) ==
    LET offs == calculate_shape_offsets(shape)
    IN  \E p \in { q \in shape.cells : q[1] \in WrittenLayers(shape, 0) } :
            p[2] < offs[1] \/ p[3] < offs[2]

add_shape_at(board, shape, letter, pos) ==
    LET written == [p \in DOMAIN board.layers |->
                      IF p \in TargetCells(shape, pos) THEN letter ELSE board.layers[p]]
        empty   == find(written, EMPTY_SLOT)
    IN  [layers   |-> written,
         next_pos |-> IF empty = NoPosition THEN <<0, 0, 0>> ELSE empty]

add_shape(board, shape, letter) == add_shape_at(board, shape, letter, board.next_pos)

\* A removal that clears the bottom layer only.
remove_shape_from_first_layer(board, name) ==
    LET first == find(board.layers, name)
    IN  [layers   |-> [p \in DOMAIN board.layers |->
                          IF board.layers[p] = name /\ p[1] = 0
                          THEN EMPTY_SLOT ELSE board.layers[p]],
         next_pos |-> IF first = NoPosition THEN board.next_pos ELSE first]

\* A removal that leaves next_pos where it was.
remove_shape_keeping_next_pos(board, name) ==
    [layers   |-> [p \in DOMAIN board.layers |->
                      IF board.layers[p] = name THEN EMPTY_SLOT ELSE board.layers[p]],
     next_pos |-> board.next_pos]

\* A removal that moves next_pos at every cleared cell, not at the first only.
remove_shape_moving_next_pos(board, name) ==
    LET hits == { p \in DOMAIN board.layers : board.layers[p] = name }
    IN  [layers   |-> [p \in DOMAIN board.layers |->
                          IF board.layers[p] = name THEN EMPTY_SLOT ELSE board.layers[p]],
         next_pos |-> IF hits = {} THEN board.next_pos
                      ELSE CHOOSE p \in hits : \A q \in hits : p = q \/ PosLess(q, p)]

\* A removal that starts by putting next_pos at the first cell of the board.
remove_shape_resetting_next_pos(board, name) ==
    LET first == find(board.layers, name)
    IN  [layers   |-> [p \in DOMAIN board.layers |->
                          IF board.layers[p] = name THEN EMPTY_SLOT ELSE board.layers[p]],
         next_pos |-> IF first = NoPosition THEN <<0, 0, 0>> ELSE first]

remove_shape(board, name) ==
    LET first == find(board.layers, name)
    IN  [layers   |-> [p \in DOMAIN board.layers |->
                          IF board.layers[p] = name THEN EMPTY_SLOT ELSE board.layers[p]],
         next_pos |-> IF first = NoPosition THEN board.next_pos ELSE first]

\* try_add_shape_at / try_add_shape: the fit check, then the add.
try_add_shape_at(dims, board, shape, name, pos) ==
    IF does_shape_fit_at(dims, board, shape, pos)
    THEN [ok |-> TRUE, board |-> add_shape_at(board, shape, name, pos)]
    ELSE [ok |-> FALSE, board |-> board]

try_add_shape(dims, board, shape, name) ==
    try_add_shape_at(dims, board, shape, name, board.next_pos)

\* ------------------------------------------------------------------------
\* Placement cursor (placements.rs)
\* ------------------------------------------------------------------------

\* A PieceSuggestion is [name, orientation_index]; its shape is always
\* get_piece_orientation(name, orientation_index).  NoPiece is Option::None.
PieceSuggestion(name, orientation_index) ==
    [name |-> name, orientation_index |-> orientation_index]

NoPiece == PieceSuggestion(0, 0)

IsSome(piece) == piece.name # 0

\* 'M': the first name after the twelve pieces 'A'..'L'.
NAME_LIMIT == 13

NoFloor == -1

\* Placements::new
new_placements == [positions |-> <<>>, used_letters |-> {}, floor |-> NoFloor]

\* A scan that stops one name after the first unused one.
RECURSIVE skip_used_and_one_more(_, _)
skip_used_and_one_more(used_letters, next_name) ==
    IF next_name < NAME_LIMIT /\ next_name \in used_letters
    THEN skip_used_and_one_more(used_letters, next_name + 1)
    ELSE next_name + 1

RECURSIVE skip_used(_, _)
skip_used(used_letters, next_name) ==
    IF next_name < NAME_LIMIT /\ next_name \in used_letters
    THEN skip_used(used_letters, next_name + 1)
    ELSE next_name

\* A cursor that offers a piece only when it starts from the first name.
get_next_piece_to_try_from_start_only(pieces, placements, after_char) ==
    IF after_char = 0
         /\ get_piece_orientation(pieces, skip_used(placements.used_letters, 1), 0) # NoShape
    THEN PieceSuggestion(skip_used(placements.used_letters, 1), 0)
    ELSE NoPiece

\* A cursor that offers the next name whether or not it is on the board.
get_next_piece_to_try_ignoring_used(pieces, placements, after_char) ==
    IF get_piece_orientation(pieces, after_char + 1, 0) # NoShape
    THEN PieceSuggestion(after_char + 1, 0)
    ELSE NoPiece

\* A cursor that scans from the first name whatever piece has just failed.
get_next_piece_to_try_from_first(pieces, placements, after_char) ==
    IF get_piece_orientation(pieces, skip_used(placements.used_letters, 1), 0) # NoShape
    THEN PieceSuggestion(skip_used(placements.used_letters, 1), 0)
    ELSE NoPiece

get_next_piece_to_try(pieces, placements, after_char) ==
    LET next_name == skip_used(placements.used_letters, after_char + 1)
    IN  IF get_piece_orientation(pieces, next_name, 0) # NoShape
        THEN PieceSuggestion(next_name, 0)
        ELSE NoPiece

\* Returns the candidate and the cursor after the push.
get_next_piece_to_try_after_success(pieces, placements, success) ==
    LET pushed == [placements EXCEPT !.used_letters = @ \cup {success.name},
                                     !.positions = Append(@, success)]
    IN  [piece |-> get_next_piece_to_try(pieces, pushed, 0), placements |-> pushed]

\* A pop that leaves the name of the popped record in the used set.
remove_last_piece_keeping_letter(placements) ==
    IF Len(placements.positions) = 0
    THEN [piece |-> NoPiece, placements |-> placements]
    ELSE [piece |-> placements.positions[Len(placements.positions)],
          placements |-> [placements EXCEPT !.positions = SubSeq(@, 1, Len(@) - 1)]]

\* Returns the popped record (NoPiece when the stack is empty) and the cursor.
remove_last_piece(placements) ==
    IF Len(placements.positions) = 0
    THEN [piece |-> NoPiece, placements |-> placements]
    ELSE LET previous == placements.positions[Len(placements.positions)]
         IN  [piece |-> previous,
              placements |-> [placements EXCEPT
                                !.positions = SubSeq(@, 1, Len(@) - 1),
                                !.used_letters = @ \ {previous.name}]]

\* The backtrack floor: no record at or below this depth may be popped.
prevent_backtracking_beyond_this_piece(placements) ==
    [placements EXCEPT !.floor = Len(placements.positions)]

\* A cursor with no floor.
floor_never_reached(placements) == FALSE

floor_reached(placements) ==
    placements.floor # NoFloor /\ Len(placements.positions) <= placements.floor

\* A cursor that puts each popped record at the end of to_remove.
RECURSIVE get_next_piece_to_try_after_failure_appending(_, _, _)
get_next_piece_to_try_after_failure_appending(pieces, placements, failure) ==
    LET next_index == failure.orientation_index + 1
        next_piece == get_next_piece_to_try(pieces, placements, failure.name)
    IN  IF get_piece_orientation(pieces, failure.name, next_index) # NoShape
        THEN [piece |-> PieceSuggestion(failure.name, next_index),
              to_remove |-> <<>>, placements |-> placements]
        ELSE IF IsSome(next_piece)
        THEN [piece |-> next_piece, to_remove |-> <<>>, placements |-> placements]
        ELSE IF floor_reached(placements) \/ Len(placements.positions) = 0
        THEN [piece |-> NoPiece, to_remove |-> <<>>, placements |-> placements]
        ELSE
          LET previous_success == placements.positions[Len(placements.positions)]
              popped == [placements EXCEPT
                           !.positions = SubSeq(@, 1, Len(@) - 1),
                           !.used_letters = @ \ {previous_success.name}]
              result == get_next_piece_to_try_after_failure_appending(pieces, popped,
                                                                      previous_success)
          IN  IF IsSome(result.piece)
              THEN [piece |-> result.piece,
                    to_remove |-> Append(result.to_remove, previous_success),
                    placements |-> result.placements]
              ELSE [piece |-> NoPiece, to_remove |-> <<>>, placements |-> result.placements]

\* Returns the candidate (NoPiece for Option::None), the records the caller must
\* remove from the board, and the cursor as the call leaves it.
RECURSIVE get_next_piece_to_try_after_failure(_, _, _)
get_next_piece_to_try_after_failure(pieces, placements, failure) ==
    LET next_index == failure.orientation_index + 1
        next_piece == get_next_piece_to_try(pieces, placements, failure.name)
    IN  IF get_piece_orientation(pieces, failure.name, next_index) # NoShape
        THEN [piece |-> PieceSuggestion(failure.name, next_index),
              to_remove |-> <<>>, placements |-> placements]
        ELSE IF IsSome(next_piece)
        THEN [piece |-> next_piece, to_remove |-> <<>>, placements |-> placements]
        ELSE IF floor_reached(placements) \/ Len(placements.positions) = 0
        THEN [piece |-> NoPiece, to_remove |-> <<>>, placements |-> placements]
        ELSE
          LET previous_success == placements.positions[Len(placements.positions)]
              popped == [placements EXCEPT
                           !.positions = SubSeq(@, 1, Len(@) - 1),
                           !.used_letters = @ \ {previous_success.name}]
              result == get_next_piece_to_try_after_failure(pieces, popped, previous_success)
          IN  IF IsSome(result.piece)
              THEN [piece |-> result.piece,
                    to_remove |-> <<previous_success>> \o result.to_remove,
                    placements |-> result.placements]
              ELSE [piece |-> NoPiece, to_remove |-> <<>>, placements |-> result.placements]

\* Placements::initialize: the suggestions for the requested pieces; all but the
\* last are pushed (the caller pushes the last one through
\* get_next_piece_to_try_after_success).
placements_initialize(placements, start_at) ==
    LET n == Len(start_at)
    IN  [suggestions |-> start_at,
         placements |-> [placements EXCEPT
                           !.positions = @ \o SubSeq(start_at, 1, n - 1),
                           !.used_letters = @ \cup { start_at[i].name : i \in 1..(n - 1) }]]

\* ------------------------------------------------------------------------
\* Placement path strings (placements.rs Display, solver.rs)
\* Strings are sequences of bytes; they compare as Rust's String does.
\* ------------------------------------------------------------------------

Char(name) == 64 + name

\* usize::to_string for an index below 100.
usize_to_string(n) == IF n < 10 THEN <<48 + n>> ELSE <<48 + (n \div 10), 48 + (n % 10)>>

RECURSIVE Concat(_)
Concat(strings) ==
    IF strings = <<>> THEN <<>> ELSE Head(strings) \o Concat(Tail(strings))

\* A Display that pads the index to two digits, as the stop path string does.
placements_to_padded_string(positions) ==
    Concat([i \in DOMAIN positions |->
              <<Char(positions[i].name), 91>>
              \o (IF positions[i].orientation_index < 10 THEN <<48>> ELSE <<>>)
              \o usize_to_string(positions[i].orientation_index)
              \o <<93, 59, 32>>])

\* write!(f, "{}[{}]; ", position.name, position.orientation_index)
placements_to_string(positions) ==
    Concat([i \in DOMAIN positions |->
              <<Char(positions[i].name), 91>> \o usize_to_string(positions[i].orientation_index)
              \o <<93, 59, 32>>])

\* Iterator::nth on the characters of a string: the item n places on, and the
\* iterator left behind it.
nth(chars, n) == [item |-> chars[n + 1], rest |-> SubSeq(chars, n + 2, Len(chars))]

\* char::to_digit(10) of a decimal digit.
to_digit(ch) == ch - 48

\* RequestedPiece::from_str: the first character is the name; of what is left,
\* the character after the next one is the orientation index.
from_str(s) ==
    [name              |-> nth(s, 0).item - 64,
     orientation_index |-> to_digit(nth(nth(s, 0).rest, 1).item)]

\* "Z-NO-LIMIT"
Z_NO_LIMIT == <<90, 45, 78, 79, 45, 76, 73, 77, 73, 84>>

convert_requested_pieces_to_path_string(requested) ==
    IF requested = <<>>
    THEN Z_NO_LIMIT
    ELSE Concat([i \in DOMAIN requested |->
                   <<Char(requested[i].name), 91>>
                   \o (IF requested[i].orientation_index < 10 THEN <<48>> ELSE <<>>)
                   \o usize_to_string(requested[i].orientation_index)
                   \o <<93, 59, 32>>])

\* a < b for strings: byte-wise lexicographic, a proper prefix being smaller.
RECURSIVE StrLess(_, _)
StrLess(a, b) ==
    IF b = <<>> THEN FALSE
    ELSE IF a = <<>> THEN TRUE
    ELSE IF Head(a) # Head(b) THEN Head(a) < Head(b)
    ELSE StrLess(Tail(a), Tail(b))

\* String::le
le(a, b) == a = b \/ StrLess(a, b)

\* ------------------------------------------------------------------------
\* Solver driver (solver.rs)
\* ------------------------------------------------------------------------

VARIABLES
    scenario,             \* which board geometry and catalog the program has
    initial_state,        \* the initial board read from stdin, as the grid it spells
    allow_backtracking,   \* CliOptions::allow_backtracking, an Option<bool>
    ending_at,            \* CliOptions::ending_at: RequestedPieces (absent = <<>>)
    board,                \* [layers, next_pos]
    placements,           \* [positions, used_letters, floor]
    next_piece,           \* Option<PieceSuggestion>
    solutions,            \* the solution counter
    ending_at_placement,  \* the stop path string
    printed,              \* what was printed: one record per reported solution or
                          \* displayed piece
    args,                 \* the tokens given to --display-pieces, as typed
    shaping,              \* the last Shape method called: [op, input, output]
    display_pieces,       \* CliOptions::display_pieces, an Option<Vec<RequestedPiece>>:
                          \* {} for None, { requests } for Some(requests)
    pc                    \* "start", "loop", "args", "display", "shape", "done" or
                          \* "panicked", "overflowed"

vars == << scenario, initial_state, allow_backtracking, ending_at, board, placements,
           next_piece, solutions, ending_at_placement, printed, args, shaping,
           display_pieces, pc >>

\* No Shape method has been called.
NoShaping == [op |-> "none", input |-> NoShape, output |-> NoShape]

Dims == Scenarios[scenario].board_type.dims

Pieces == PIECES[scenario]

\* Shape::parse(strings, letter): NoShape when the letter does not occur.
Shape_parse(strings, letter) ==
    LET found      == { p \in DOMAIN strings : strings[p] = letter }
        row_offset == CHOOSE r \in { p[2] : p \in found } : \A p \in found : r <= p[2]
        col_offset == CHOOSE c \in { p[3] : p \in found } : \A p \in found : c <= p[3]
    IN  IF found = {} THEN NoShape
        ELSE snap_to_top_left(
               Shape({ <<p[1], p[2] - row_offset, p[3] - col_offset>> : p \in found },
                     Cardinality({ p[1] : p \in found }) > 1))

\* The first cell of the initial state that holds the letter.
parse_shape_position(board_state, letter) == find(board_state, letter)

\* piece.orientations.iter().position(|s| shape.eq(s)): 0-based, -1 when absent.
orientation_position(pieces, piece_name, shape) ==
    LET hits == { i \in DOMAIN pieces[piece_name] : pieces[piece_name][i] = shape }
    IN  IF hits = {} THEN -1 ELSE (CHOOSE i \in hits : \A j \in hits : i <= j) - 1

\* The loop of initialize, going on when an initial piece does not fit.
RECURSIVE initialize_pieces_ignoring_fit(_, _, _, _, _, _)
initialize_pieces_ignoring_fit(dims, pieces, board_state, piece_name, b, requested_pieces) ==
    LET place(shape, orientation_index, added) ==
            IF shape = NoShape
            THEN initialize_pieces_ignoring_fit(dims, pieces, board_state, piece_name + 1, b,
                                                requested_pieces)
            ELSE IF orientation_index = -1
            THEN [panic |-> TRUE, board |-> b, requested_pieces |-> requested_pieces]
            ELSE initialize_pieces_ignoring_fit(dims, pieces, board_state, piece_name + 1,
                                                added.board,
                                                Append(requested_pieces,
                                                       PieceSuggestion(piece_name,
                                                                       orientation_index)))
        parsed(shape) ==
            place(shape,
                  orientation_position(pieces, piece_name, shape),
                  try_add_shape_at(dims, b, shape, piece_name,
                                   parse_shape_position(board_state, piece_name)))
    IN  IF piece_name \notin DOMAIN pieces
        THEN [panic |-> FALSE, board |-> b, requested_pieces |-> requested_pieces]
        ELSE parsed(Shape_parse(board_state, piece_name))

\* The loop of initialize over the sorted piece names, from piece_name on.
RECURSIVE initialize_pieces(_, _, _, _, _, _)
initialize_pieces(dims, pieces, board_state, piece_name, b, requested_pieces) ==
    LET place(shape, orientation_index, added) ==
            IF shape = NoShape
            THEN initialize_pieces(dims, pieces, board_state, piece_name + 1, b, requested_pieces)
            ELSE IF orientation_index = -1 \/ ~added.ok
            THEN [panic |-> TRUE, board |-> b, requested_pieces |-> requested_pieces]
            ELSE initialize_pieces(dims, pieces, board_state, piece_name + 1, added.board,
                                   Append(requested_pieces,
                                          PieceSuggestion(piece_name, orientation_index)))
        parsed(shape) ==
            place(shape,
                  orientation_position(pieces, piece_name, shape),
                  try_add_shape_at(dims, b, shape, piece_name,
                                   parse_shape_position(board_state, piece_name)))
    IN  IF piece_name \notin DOMAIN pieces
        THEN [panic |-> FALSE, board |-> b, requested_pieces |-> requested_pieces]
        ELSE parsed(Shape_parse(board_state, piece_name))

\* Option<bool>: the empty set is Option::None, { b } is Option::Some(b).
OptionBool == { {}, { TRUE }, { FALSE } }

\* An unwrap_or that takes an absent value for true.
unwrap_or_true(option, default) ==
    IF option = {} THEN TRUE ELSE CHOOSE b \in option : TRUE

\* Option::unwrap_or
unwrap_or(option, default) ==
    IF option = {} THEN default ELSE CHOOSE b \in option : TRUE

\* initialize: the board, the cursor and the first candidate.
initialize(dims, pieces, board_state, allow) ==
    LET finish(placed, cursor, suggestion) ==
            [panic      |-> placed.panic,
             board      |-> placed.board,
             placements |-> IF ~unwrap_or(allow, FALSE)
                            THEN prevent_backtracking_beyond_this_piece(cursor)
                            ELSE cursor,
             suggestion |-> suggestion]
        first(placed, init) ==
            finish(placed, init.placements, init.suggestions[Len(init.suggestions)])
        after(placed, success) == finish(placed, success.placements, success.piece)
        last(placed, init) ==
            after(placed, get_next_piece_to_try_after_success(
                             pieces, init.placements, init.suggestions[Len(init.suggestions)]))
        suggest(placed) ==
            IF placed.requested_pieces = <<>>
            THEN first(placed, placements_initialize(new_placements, <<PieceSuggestion(1, 0)>>))
            ELSE last(placed, placements_initialize(new_placements, placed.requested_pieces))
    IN  suggest(initialize_pieces(dims, pieces, board_state, 1, new_board(dims), <<>>))

RECURSIVE remove_shapes(_, _)
remove_shapes(b, to_remove) ==
    IF to_remove = <<>> THEN b
    ELSE remove_shapes(remove_shape(b, Head(to_remove).name), Tail(to_remove))

\* solver.rs get_next_piece_to_try_after_failure: the cursor's answer, with the
\* board reverted when there is a candidate.
solver_get_next_piece_to_try_after_failure(pieces, pl, b, failed_piece) ==
    LET revert(result) ==
            [piece      |-> result.piece,
             placements |-> result.placements,
             board      |-> IF IsSome(result.piece) THEN remove_shapes(b, result.to_remove)
                            ELSE b]
    IN  revert(get_next_piece_to_try_after_failure(pieces, pl, failed_piece))

\* The first statement of the loop body: try the candidate, ask for the next.
try_candidate(dims, pieces, b, pl, p) ==
    LET succeed(success, added) ==
            [piece |-> success.piece, placements |-> success.placements, board |-> added]
        next(tried) ==
            IF tried.ok
            THEN succeed(get_next_piece_to_try_after_success(pieces, pl, p), tried.board)
            ELSE solver_get_next_piece_to_try_after_failure(pieces, pl, b, p)
    IN  next(try_add_shape(dims, b, get_piece_orientation(pieces, p.name, p.orientation_index),
                           p.name))

\* A check that lets every solved board through.
within_any_ending(path, stop) == TRUE

\* The solved board is reported when its path is  <=  the stop path string.
within_ending_at(path, stop) == le(path, stop)

\* After a report: the last piece is taken off and handled as a failure.
resume_after_solution(pieces, pl, b) ==
    LET resume(last) ==
            IF IsSome(last.piece)
            THEN solver_get_next_piece_to_try_after_failure(
                    pieces, last.placements, remove_shape(b, last.piece.name), last.piece)
            ELSE [piece |-> NoPiece, placements |-> last.placements, board |-> b]
    IN  resume(remove_last_piece(pl))

\* The rest of the loop body, after the candidate was tried: what is reported,
\* whether the loop is left, and the state the iteration ends in.
after_candidate(pieces, tried, stop) ==
    LET outcome(is_solved, reported) ==
            [reported |-> reported,
             break    |-> is_solved /\ ~reported,
             state    |-> IF reported
                          THEN resume_after_solution(pieces, tried.placements, tried.board)
                          ELSE tried]
        check(is_solved) ==
            outcome(is_solved,
                    is_solved /\ within_ending_at(placements_to_string(tried.placements.positions),
                                                  stop))
    IN  check(~IsSome(tried.piece) /\ solved(tried.board))

\* One record per reported solution: the two lines printed, and the cursor
\* stack the path line was printed from.
Report(pl, b) ==
    [path |-> placements_to_string(pl.positions), board |-> b.layers, positions |-> pl.positions]

\* ---- inputs ----

MaxInitialPieces == 2

MaxStopLen == 2

StopOrientations == { 0, 10 }

Names(s) == DOMAIN Scenarios[s].bases

\* Initial boards with at most k pieces, each a catalog orientation put somewhere
\* it fits.
RECURSIVE InitialGrids(_, _)
InitialGrids(s, k) ==
    IF k = 0 THEN { Default(Scenarios[s].board_type.dims) }
    ELSE LET dims == Scenarios[s].board_type.dims
             prev == InitialGrids(s, k - 1)
             Fits(g, n, i, pos) ==
                /\ \A q \in DOMAIN g : g[q] # n
                /\ i <= Len(PIECES[s][n])
                /\ does_shape_fit_at(dims, [layers |-> g, next_pos |-> pos], PIECES[s][n][i], pos)
         IN  prev \cup
             { add_shape_at([layers |-> x[1], next_pos |-> x[4]],
                            PIECES[s][x[2]][x[3]], x[2], x[4]).layers :
               x \in { y \in prev \X Names(s) \X (1..24) \X BoardCells(dims) :
                         Fits(y[1], y[2], y[3], y[4]) } }

InitialStates == [s \in DOMAIN Scenarios |-> InitialGrids(s, MaxInitialPieces)]

\* The layers of a board, each one column wider.
Wider(dims) == [l \in DOMAIN dims |-> <<dims[l][1], dims[l][2] + 1>>]

\* Initial states whose text is one column wider than the board, with at most k
\* pieces, each a catalog orientation put somewhere in the text: the pieces can
\* lie on the board or reach into the column beyond it.
RECURSIVE OversizedGrids(_, _)
OversizedGrids(s, k) ==
    IF k = 0 THEN { Default(Wider(Scenarios[s].board_type.dims)) }
    ELSE LET dims == Wider(Scenarios[s].board_type.dims)
             prev == OversizedGrids(s, k - 1)
             Fits(g, n, i, pos) ==
                /\ \A q \in DOMAIN g : g[q] # n
                /\ i <= Len(PIECES[s][n])
                /\ does_shape_fit_at(dims, [layers |-> g, next_pos |-> pos], PIECES[s][n][i], pos)
         IN  prev \cup
             { add_shape_at([layers |-> x[1], next_pos |-> x[4]],
                            PIECES[s][x[2]][x[3]], x[2], x[4]).layers :
               x \in { y \in prev \X Names(s) \X (1..24) \X BoardCells(dims) :
                         Fits(y[1], y[2], y[3], y[4]) } }

OversizedStates == [s \in DOMAIN Scenarios |-> OversizedGrids(s, MaxInitialPieces)]

StopPaths ==
    [s \in DOMAIN Scenarios |->
        UNION { [1..k -> { PieceSuggestion(n, i) : n \in Names(s), i \in StopOrientations }] :
                k \in 0..MaxStopLen }]

\* ---- the state machine ----

\* The program before find_solutions runs.
Start ==
    /\ board = new_board(Dims)
    /\ placements = new_placements
    /\ next_piece = NoPiece
    /\ solutions = 0
    /\ ending_at_placement = <<>>
    /\ printed = <<>>
    /\ args = <<>>
    /\ shaping = NoShaping
    /\ display_pieces = {}
    /\ pc = "start"

\* The small programs, with every initial state of at most MaxInitialPieces
\* pieces and, from the empty board, every stop path of at most MaxStopLen tokens.
Init ==
    /\ scenario \in SmallScenarios
    /\ initial_state \in InitialStates[scenario]
    /\ allow_backtracking \in OptionBool
    /\ ending_at \in IF initial_state = Default(Dims)
                     THEN StopPaths[scenario]
                     ELSE { <<>> }
    /\ Start

\* The three-layer pyramid, searched from the empty board with no stop path.
InitPyramid ==
    /\ scenario \in PyramidScenarios
    /\ initial_state = Default(Dims)
    /\ allow_backtracking \in OptionBool
    /\ ending_at = <<>>
    /\ Start

\* The small programs, searched from the empty board with no stop path.
InitEmptyBoard ==
    /\ scenario \in SmallScenarios
    /\ initial_state = Default(Dims)
    /\ allow_backtracking \in OptionBool
    /\ ending_at = <<>>
    /\ Start

\* The small programs, fed a text one column wider than the board.
InitOversized ==
    /\ scenario \in SmallScenarios
    /\ initial_state \in OversizedStates[scenario]
    /\ allow_backtracking \in OptionBool
    /\ ending_at = <<>>
    /\ Start

\* find_solutions up to the loop: initialize, and the stop path string.
Initialize ==
    /\ pc = "start"
    /\ LET enter(init) ==
               /\ board' = init.board
               /\ placements' = init.placements
               /\ next_piece' = init.suggestion
               /\ pc' = IF init.panic THEN "panicked" ELSE "loop"
       IN  enter(initialize(Dims, Pieces, initial_state, allow_backtracking))
    /\ ending_at_placement' = convert_requested_pieces_to_path_string(ending_at)
    /\ UNCHANGED << scenario, initial_state, allow_backtracking, ending_at, solutions, printed,
                    args, shaping, display_pieces >>

\* One iteration of the loop.
Iterate ==
    /\ pc = "loop"
    /\ IsSome(next_piece)
    /\ LET end(tried, step) ==
               /\ board' = step.state.board
               /\ placements' = step.state.placements
               /\ next_piece' = step.state.piece
               /\ solutions' = IF step.reported THEN solutions + 1 ELSE solutions
               /\ printed' = IF step.reported
                             THEN Append(printed, Report(tried.placements, tried.board))
                             ELSE printed
               /\ pc' = IF step.break THEN "done" ELSE "loop"
           body(pieces, tried) == end(tried, after_candidate(pieces, tried, ending_at_placement))
           try(pieces) == body(pieces, try_candidate(Dims, pieces, board, placements, next_piece))
       IN  try(Pieces)
    /\ UNCHANGED << scenario, initial_state, allow_backtracking, ending_at, ending_at_placement,
                    args, shaping, display_pieces >>

\* The loop condition fails: "found N solutions".
\* The iteration in a build with overflow checks, for a candidate that fits and
\* whose placement subtracts below zero: the program panics inside add_shape.
AddShapeOverflow ==
    /\ pc = "loop"
    /\ IsSome(next_piece)
    /\ does_shape_fit(Dims, board,
                      get_piece_orientation(Pieces, next_piece.name, next_piece.orientation_index))
    /\ add_shape_overflows(
           get_piece_orientation(Pieces, next_piece.name, next_piece.orientation_index))
    /\ pc' = "overflowed"
    /\ UNCHANGED << scenario, initial_state, allow_backtracking, ending_at, board, placements,
                    next_piece, solutions, ending_at_placement, printed, args, shaping,
                    display_pieces >>

Finish ==
    /\ pc = "loop"
    /\ ~IsSome(next_piece)
    /\ pc' = "done"
    /\ UNCHANGED << scenario, initial_state, allow_backtracking, ending_at, board, placements,
                    next_piece, solutions, ending_at_placement, printed, args, shaping,
                    display_pieces >>

Next == Initialize \/ Iterate \/ AddShapeOverflow \/ Finish

\* ---- main with --ending-at ----

\* The tokens X[dd] for the first two piece names and the indices 00 to 19.
Tokens ==
    { <<Char(n), 91, 48 + d[1], 48 + d[2], 93>> :
        n \in 1..2, d \in (0..1) \X (0..9) }

\* main before the command line is parsed: one of the small programs, nothing
\* on standard input, and --ending-at with no token or one.
InitArguments ==
    /\ scenario \in SmallScenarios
    /\ initial_state = Default(Dims)
    /\ allow_backtracking = {}
    /\ ending_at = <<>>
    /\ board = new_board(Dims)
    /\ placements = new_placements
    /\ next_piece = NoPiece
    /\ solutions = 0
    /\ ending_at_placement = <<>>
    /\ printed = <<>>
    /\ args \in { <<>> } \cup { <<t>> : t \in Tokens }
    /\ shaping = NoShaping
    /\ display_pieces = {}
    /\ pc = "args"

\* CliOptions::from_args: every token goes through RequestedPiece::from_str.
ParseArguments ==
    /\ pc = "args"
    /\ ending_at' = [i \in DOMAIN args |-> from_str(args[i])]
    /\ pc' = "start"
    /\ UNCHANGED << scenario, initial_state, allow_backtracking, board, placements, next_piece,
                    solutions, ending_at_placement, printed, args, shaping, display_pieces >>

NextArguments == ParseArguments \/ Initialize \/ Iterate \/ AddShapeOverflow \/ Finish

\* ---- main with --display-pieces ----

\* The requests RequestedPiece::from_str can build: a name, here 'A'..'M' ('M'
\* is no piece), and the orientation index to_digit(10) reads from one character.
DisplayRequests == { PieceSuggestion(n, i) : n \in 1..NAME_LIMIT, i \in 0..9 }

\* main, called with --display-pieces and one request, on the program's catalog.
InitDisplay ==
    /\ scenario \in KanoodleScenarios
    /\ initial_state = Default(Dims)
    /\ allow_backtracking = {}
    /\ ending_at = <<>>
    /\ board = new_board(Dims)
    /\ placements = new_placements
    /\ next_piece = NoPiece
    /\ solutions = 0
    /\ ending_at_placement = <<>>
    /\ printed = <<>>
    /\ args = <<>>
    /\ shaping = NoShaping
    /\ display_pieces \in { { <<r>> } : r \in DisplayRequests }
    /\ pc = "display"

\* One turn of the loop of main over the requested pieces: "not found" for a
\* name that is no piece, a panic (unwrap of None) for an index past the list,
\* else the piece and the shape its list holds at the index.
DisplayPiece ==
    /\ pc = "display"
    /\ display_pieces # {} /\ display_pieces # { <<>> }
    /\ LET show(requested_piece, rest) ==
              IF requested_piece.name \notin DOMAIN Pieces
              THEN /\ printed' = Append(printed, [name |-> requested_piece.name,
                                                  found |-> FALSE])
                   /\ display_pieces' = { rest }
                   /\ pc' = "display"
              ELSE IF orientations_get(Pieces[requested_piece.name],
                                       requested_piece.orientation_index) = {}
              THEN /\ pc' = "panicked"
                   /\ UNCHANGED << printed, display_pieces >>
              ELSE /\ \E shape \in orientations_get(Pieces[requested_piece.name],
                                                     requested_piece.orientation_index) :
                         printed' = Append(printed,
                                           [name |-> requested_piece.name,
                                            found |-> TRUE,
                                            orientation_index |->
                                                requested_piece.orientation_index,
                                            shape |-> shape])
                   /\ display_pieces' = { rest }
                   /\ pc' = "display"
           each(requests) == show(Head(requests), Tail(requests))
       IN  each(CHOOSE requests \in display_pieces : TRUE)
    /\ UNCHANGED << scenario, initial_state, allow_backtracking, ending_at, board, placements,
                    next_piece, solutions, ending_at_placement, args, shaping >>

\* The return after the last requested piece.
DisplayReturn ==
    /\ pc = "display"
    /\ display_pieces = { <<>> }
    /\ pc' = "done"
    /\ UNCHANGED << scenario, initial_state, allow_backtracking, ending_at, board, placements,
                    next_piece, solutions, ending_at_placement, printed, args, shaping,
                    display_pieces >>

NextDisplay == DisplayPiece \/ DisplayReturn

\* ---- the Shape methods, called on the shapes of the catalog ----

\* The base shapes of the catalog as Piece::parse hands them to
\* generate_orientations, and ShapeLayers::default(), the shape with no cell.
ParsedShapes ==
    { Shape({ <<0, p[1], p[2]>> : p \in Scenarios[s].bases[n] }, FALSE) :
        <<s, n>> \in { x \in KanoodleScenarios \X (1..NAME_LIMIT) :
                         x[2] \in DOMAIN Scenarios[x[1]].bases } }
    \cup { Shape({}, FALSE) }

InitShapes ==
    /\ scenario \in KanoodleScenarios
    /\ initial_state = Default(Dims)
    /\ allow_backtracking = {}
    /\ ending_at = <<>>
    /\ board = new_board(Dims)
    /\ placements = new_placements
    /\ next_piece = NoPiece
    /\ solutions = 0
    /\ ending_at_placement = <<>>
    /\ printed = <<>>
    /\ args = <<>>
    /\ shaping \in { [op |-> "parse", input |-> x, output |-> x] : x \in ParsedShapes }
    /\ display_pieces = {}
    /\ pc = "shape"

\* What stays as it is when a Shape method is called.
ShapingFrame ==
    UNCHANGED << scenario, initial_state, allow_backtracking, ending_at, board, placements,
                 next_piece, solutions, ending_at_placement, printed, args, display_pieces >>

\* shape.rotate() on the last shape made.
Rotate ==
    /\ pc = "shape"
    /\ shaping' = [op |-> "rotate", input |-> shaping.output, output |-> rotate(shaping.output)]
    /\ pc' = pc
    /\ ShapingFrame

\* shape.reflect() on the last shape made.
Reflect ==
    /\ pc = "shape"
    /\ shaping' = [op |-> "reflect", input |-> shaping.output,
                   output |-> reflect(shaping.output)]
    /\ pc' = pc
    /\ ShapingFrame

\* shape.snap_to_top_left() on the last shape made; a shift that runs out of
\* iterations panics.
SnapToTopLeft ==
    /\ pc = "shape"
    /\ LET snap(x) ==
              IF shift_panics(x.cells, "up") \/ shift_panics(shift(x.cells, "up"), "left")
              THEN /\ shaping' = [op |-> "snap_to_top_left", input |-> x, output |-> x]
                   /\ pc' = "panicked"
              ELSE /\ shaping' = [op |-> "snap_to_top_left", input |-> x,
                                  output |-> snap_to_top_left(x)]
                   /\ pc' = pc
       IN  snap(shaping.output)
    /\ ShapingFrame

\* shape.erect() on the last shape made; it snaps and shifts a flat shape, and
\* hands back a 3-D one.
Erect ==
    /\ pc = "shape"
    /\ LET up(x) ==
              IF ~x.is_3d
                 /\ (\/ shift_panics(x.cells, "up")
                     \/ shift_panics(shift(x.cells, "up"), "left")
                     \/ shift_panics(snap_to_top_left(x).cells, "down"))
              THEN /\ shaping' = [op |-> "erect", input |-> x, output |-> x]
                   /\ pc' = "panicked"
              ELSE /\ shaping' = [op |-> "erect", input |-> x, output |-> erect(x)]
                   /\ pc' = pc
       IN  up(shaping.output)
    /\ ShapingFrame

NextShapes == Rotate \/ Reflect \/ SnapToTopLeft \/ Erect

Spec == Init /\ [][Next]_vars

SpecPyramid == InitPyramid /\ [][Next]_vars

SpecEmptyBoard == InitEmptyBoard /\ [][Next]_vars

SpecDisplay == InitDisplay /\ [][NextDisplay]_vars

SpecOversized == InitOversized /\ [][Next]_vars

SpecShapes == InitShapes /\ [][NextShapes]_vars

SpecArguments == InitArguments /\ [][NextArguments]_vars


\* ------------------------------------------------------------------------
\* Properties
\* ------------------------------------------------------------------------

EmptyInitialState == initial_state = Default(Dims)

NoStopPath == ending_at = <<>>

Running == pc \in { "loop", "done" }

NamesOnBoard(layers) == { layers[p] : p \in DOMAIN layers } \ { EMPTY_SLOT }

NamesInStack(positions) == { positions[i].name : i \in DOMAIN positions }

\* Paths compared token by token, a token being (name, orientation index); a
\* proper prefix is the smaller path.  This is the order of the paths written
\* with zero-padded indices.
RECURSIVE TokenLess(_, _)
TokenLess(p, q) ==
    IF q = <<>> THEN FALSE
    ELSE IF p = <<>> THEN TRUE
    ELSE IF Head(p) # Head(q)
    THEN \/ Head(p).name < Head(q).name
         \/ Head(p).name = Head(q).name
            /\ Head(p).orientation_index < Head(q).orientation_index
    ELSE TokenLess(Tail(p), Tail(q))

\* Every way of laying a shape on the board: its cells moved by one offset, all
\* of them on board cells.
Translations(dims, shape) ==
    { T \in { { <<p[1] + d[1], p[2] + d[2], p[3] + d[3]>> : p \in shape.cells } :
              d \in (0..(Len(dims) - 1)) \X (-4..4) \X (-4..4) } :
        T \subseteq BoardCells(dims) }

\* The fillings of the board of scenario s: every cell holds a piece name, and the
\* cells of each name are one orientation of that piece laid somewhere.
ExactCovers(s) ==
    LET dims == Scenarios[s].board_type.dims
        Lays == [n \in Names(s) |->
                   UNION { Translations(dims, PIECES[s][n][i]) : i \in DOMAIN PIECES[s][n] }]
    IN  { g \in [BoardCells(dims) -> Names(s)] :
            \A n \in Names(s) : { p \in BoardCells(dims) : g[p] = n } \in Lays[n] }

RECURSIVE exact_covers_upto(_)
exact_covers_upto(s) ==
    IF s = 0 THEN <<>> ELSE Append(exact_covers_upto(s - 1), ExactCovers(s))

ExactCoversOf == exact_covers_upto(Cardinality(SmallScenarios))

ReportedBoards == { printed[i].board : i \in DOMAIN printed }

\* C1: the reported placement paths, as the driver prints them, are strictly
\* increasing in plain lexicographic string order (so none is reported twice).
C1_ReportedPathsIncreasing ==
    \A i \in 1..(Len(printed) - 1) : StrLess(printed[i].path, printed[i + 1].path)

\* C2: completeness. When the search from the empty board with no stop path has
\* ended, every exact cover of the board by the catalog has been reported.
C2_Completeness ==
    (pc = "done" /\ EmptyInitialState /\ NoStopPath)
        => ExactCoversOf[scenario] \subseteq ReportedBoards

C2_Witness ==
    /\ pc = "done" /\ EmptyInitialState /\ NoStopPath
    /\ scenario = 3
    /\ Cardinality(ExactCoversOf[scenario]) >= 2
    /\ solutions >= 2

\* The cells T are the shape moved by one offset: some cell of the shape lands
\* on some cell of T and every other cell follows.
IsLaid(T, shape) ==
    \E a \in T : \E c \in shape.cells :
        T = { <<p[1] + a[1] - c[1], p[2] + a[2] - c[2], p[3] + a[3] - c[3]>> : p \in shape.cells }

\* C3: soundness. Each reported solution has no empty cell, no piece name twice
\* in its cursor stack, and for each stack record the cells labelled with its
\* name are exactly the recorded orientation laid somewhere on the board.
Sound(report) ==
    /\ \A p \in DOMAIN report.board : report.board[p] # EMPTY_SLOT
    /\ \A i, j \in DOMAIN report.positions :
          i # j => report.positions[i].name # report.positions[j].name
    /\ \A i \in DOMAIN report.positions :
          IsLaid({ p \in DOMAIN report.board : report.board[p] = report.positions[i].name },
                 get_piece_orientation(Pieces, report.positions[i].name,
                                       report.positions[i].orientation_index))

C3_Soundness == printed # <<>> => Sound(printed[Len(printed)])

C3_Witness ==
    /\ Len(printed) >= 2
    /\ ~EmptyInitialState
    /\ scenario = 3

\* C4: the run ends with no candidate and either an unsolved board or a solved
\* board whose path is at or beyond the stop path.
C4_FinalState ==
    pc = "done"
        => /\ ~IsSome(next_piece)
           /\ \/ ~solved(board)
              \/ ~StrLess(placements_to_string(placements.positions), ending_at_placement)

\* The path of the first solved board the run came to, once the run shows it:
\* the first one reported or, when none was reported, the one the run ended on.
FirstSolvedPath ==
    IF printed # <<>> THEN printed[1].positions
    ELSE IF pc = "done" /\ solved(board) THEN placements.positions
    ELSE <<>>

\* C5: with the path of the first solution as the stop path no solution is
\* reported, and whatever is reported has a path string strictly below the stop
\* path string.
C5_StopPathExclusive ==
    /\ (pc = "done" /\ ~NoStopPath /\ FirstSolvedPath = ending_at) => solutions = 0
    /\ \A i \in DOMAIN printed : StrLess(printed[i].path, ending_at_placement)

C5_Witness ==
    /\ pc = "done"
    /\ ~NoStopPath
    /\ FirstSolvedPath = ending_at
    /\ solved(board)

\* The four boards of the 2x2 board cut in two dominoes: the horizontal and the
\* vertical split, each with the two names either way round.
TwoByTwo(a, b, c, d) ==
    [p \in BoardCells(Scenarios[1].board_type.dims) |->
        CASE p = <<0, 0, 0>> -> a [] p = <<0, 0, 1>> -> b
          [] p = <<0, 1, 0>> -> c [] p = <<0, 1, 1>> -> d]

DominoSplits ==
    { TwoByTwo(1, 1, 2, 2), TwoByTwo(2, 2, 1, 1), TwoByTwo(1, 2, 1, 2), TwoByTwo(2, 1, 2, 1) }

TwoDominoRunEnded == pc = "done" /\ scenario = 1 /\ EmptyInitialState /\ NoStopPath

\* C6 as stated: on the 2x2 board with two dominoes exactly 2 solutions are
\* reported and the count is 2.
C6_TwoSolutions == TwoDominoRunEnded => (solutions = 2 /\ Len(printed) = 2)

\* C6 amended: exactly 4 solutions are reported, the horizontal and the vertical
\* split once for each way of giving the two names to the two dominoes, and the
\* count is 4.
C6_FourSolutions ==
    TwoDominoRunEnded
        => /\ solutions = 4
           /\ Len(printed) = 4
           /\ ReportedBoards = DominoSplits

C6_Witness == TwoDominoRunEnded /\ solutions > 0

\* C7: a solved board whose path is at or beyond the stop path ends the run at
\* once: it is not reported, and nothing can happen afterwards.
C7_StopsAtStopPath ==
    /\ (Running /\ solved(board) /\ ~IsSome(next_piece)
          /\ ~NoStopPath /\ ~TokenLess(placements.positions, ending_at))
        => /\ pc = "done"
           /\ \A i \in DOMAIN printed : printed[i].positions # placements.positions
    /\ (printed # <<>> /\ ~NoStopPath)
        => TokenLess(printed[Len(printed)].positions, ending_at)
    /\ pc = "done" => ~ENABLED Next

C7_Witness ==
    /\ pc = "done"
    /\ solved(board)
    /\ ~NoStopPath
    /\ ~TokenLess(placements.positions, ending_at)
    /\ Len(printed) >= 1

InitialNames == NamesOnBoard(initial_state)

C9_LockStep == Running => NamesOnBoard(board.layers) = NamesInStack(placements.positions)

\* C10: get_next_piece_to_try_after_success(p) pushes p, marks p's name used and
\* returns orientation 0 of the smallest catalog name not used, none exactly when
\* every catalog name is used.
SuccessTransition(pieces, pl, p, result) ==
    LET unused == DOMAIN pieces \ (pl.used_letters \cup { p.name })
    IN  /\ result.placements.positions = Append(pl.positions, p)
        /\ result.placements.used_letters = pl.used_letters \cup { p.name }
        /\ result.piece = NoPiece <=> unused = {}
        /\ unused # {}
             => /\ result.piece.name \in unused
                /\ \A n \in unused : result.piece.name <= n
                /\ result.piece.orientation_index = 0

C10_SuccessTransition ==
    pc = "loop"
        => \A n \in DOMAIN Pieces \ placements.used_letters :
             \A i \in 0..(Len(Pieces[n]) - 1) :
                SuccessTransition(Pieces, placements, PieceSuggestion(n, i),
                    get_next_piece_to_try_after_success(Pieces, placements,
                                                        PieceSuggestion(n, i)))

C10_Witness ==
    /\ pc = "loop"
    /\ scenario = 5
    /\ placements.used_letters = { 2 }
    /\ next_piece = PieceSuggestion(1, 0)

\* The pieces a placement attempt can have failed on: any orientation of any
\* piece not on the stack.
FailedCandidates ==
    { PieceSuggestion(n, i) : <<n, i>> \in
        { x \in (DOMAIN Pieces \ placements.used_letters) \X (0..23) :
            x[2] < Len(Pieces[x[1]]) } }

LaterUnused(used, name) == { m \in DOMAIN Pieces \ used : m > name }

Least(S) == CHOOSE m \in S : \A k \in S : m <= k

FailureTransition(pl, f, result) ==
    LET later == LaterUnused(pl.used_letters, f.name)
    IN  IF f.orientation_index + 1 < Len(Pieces[f.name])
        THEN /\ result.piece = PieceSuggestion(f.name, f.orientation_index + 1)
             /\ result.placements = pl
             /\ result.to_remove = <<>>
        ELSE IF later # {}
        THEN /\ result.piece = PieceSuggestion(Least(later), 0)
             /\ result.placements = pl
             /\ result.to_remove = <<>>
        ELSE \/ Len(result.placements.positions) < Len(pl.positions)
             \/ /\ result.piece = NoPiece
                /\ result.placements = pl

\* C11: after a failed candidate (name, i) the next candidate is (name, i + 1) when
\* that orientation exists, else orientation 0 of the smallest unused name after
\* name, both without touching the stack, the used set or to_remove; a record is
\* popped only when neither exists.
C11_FailureTransition ==
    pc = "loop"
        => \A f \in FailedCandidates :
              FailureTransition(placements, f,
                                get_next_piece_to_try_after_failure(Pieces, placements, f))

C11_Witness ==
    /\ pc = "loop"
    /\ placements.positions # <<>>
    /\ placements.used_letters = { 1 }
    /\ next_piece = PieceSuggestion(3, 0)

\* Nothing comes after the failed candidate f, nor after any record of the stack
\* above depth floor once the records above it are popped.
RECURSIVE Exhausted(_, _, _)
Exhausted(positions, f, floor) ==
    /\ f.orientation_index + 1 >= Len(Pieces[f.name])
    /\ LaterUnused(NamesInStack(positions), f.name) = {}
    /\ Len(positions) > floor
          => Exhausted(SubSeq(positions, 1, Len(positions) - 1),
                       positions[Len(positions)], floor)

ProtectedDepth(pl) == IF pl.floor = NoFloor THEN 0 ELSE pl.floor

C13_SolvedIffNoEmptyCell ==
    /\ solved(board) <=> (\A p \in DOMAIN board.layers : board.layers[p] # EMPTY_SLOT)
    /\ \A p \in DOMAIN board.layers :
          /\ ~solved([board EXCEPT !.layers[p] = EMPTY_SLOT])
          /\ solved(board)
                => solved([[board EXCEPT !.layers[p] = EMPTY_SLOT]
                              EXCEPT !.layers[p] = board.layers[p]])

C13_Witness ==
    /\ Running
    /\ solved(board)
    /\ layer_count(Dims) = 2
    /\ EmptyInitialState

\* Every orientation of the catalog, as <<name, shape>>.
CatalogShapes ==
    { <<n, Pieces[n][i]>> : <<n, i>> \in
        { x \in (DOMAIN Pieces) \X (1..24) : x[2] <= Len(Pieces[x[1]]) } }

\* The board cell an occupied shape cell p goes to when the shape's offset cell
\* offs is put at anchor pos, in plain integers.
TargetOf(offs, pos, p) == << pos[1] + p[1], pos[2] + p[2] - offs[1], pos[3] + p[3] - offs[2] >>

EveryCellLandsOnEmpty(layers, shape, offs, pos) ==
    \A p \in shape.cells :
        /\ TargetOf(offs, pos, p) \in DOMAIN layers
        /\ layers[TargetOf(offs, pos, p)] = EMPTY_SLOT

FitCheckAgrees(shape, offs) ==
    \A pos \in DOMAIN board.layers :
        does_shape_fit_at(Dims, board, shape, pos)
           <=> EveryCellLandsOnEmpty(board.layers, shape, offs, pos)

\* C14: on every board, for every catalog orientation and every anchor, the fit
\* check succeeds exactly when every occupied shape cell lands on a cell that
\* exists (layer, row and column in range) and is empty.
C14_FitCheck ==
    Running => \A x \in CatalogShapes : FitCheckAgrees(x[2], calculate_shape_offsets(x[2]))

C14_Witness ==
    /\ pc = "loop"
    /\ layer_count(Dims) = 2
    /\ NamesOnBoard(board.layers) # {}
    /\ IsSome(next_piece)
    /\ get_piece_orientation(Pieces, next_piece.name, next_piece.orientation_index).is_3d
    /\ does_shape_fit(Dims, board,
                      get_piece_orientation(Pieces, next_piece.name, next_piece.orientation_index))
    /\ \E x \in CatalogShapes :
          /\ \E p \in x[2].cells :
                TargetOf(calculate_shape_offsets(x[2]), board.next_pos, p)[3] < 0
          /\ \E p \in x[2].cells :
                TargetOf(calculate_shape_offsets(x[2]), board.next_pos, p)[1] >= layer_count(Dims)

AddThenRemoveRestores(name, shape, pos) ==
    LET restored(back) ==
            /\ back.layers = board.layers
            /\ back.next_pos \in DOMAIN back.layers
            /\ back.layers[back.next_pos] = EMPTY_SLOT
    IN  restored(remove_shape(add_shape_at(board, shape, name, pos), name))

\* C15: on every board, adding a shape that fits (a piece not on the board, in any
\* orientation, at any anchor) and removing it again by name restores every
\* cell, and next_pos is then the position of an empty cell.
C15_AddRemoveRoundTrip ==
    Running
        => \A x \in CatalogShapes : \A pos \in DOMAIN board.layers :
              (x[1] \notin NamesOnBoard(board.layers)
                 /\ does_shape_fit_at(Dims, board, x[2], pos))
                => AddThenRemoveRestores(x[1], x[2], pos)

C15_Witness ==
    /\ pc = "loop"
    /\ layer_count(Dims) = 2
    /\ NamesOnBoard(board.layers) # {}
    /\ \E x \in CatalogShapes :
          /\ x[2].is_3d
          /\ x[1] \notin NamesOnBoard(board.layers)
          /\ does_shape_fit_at(Dims, board, x[2], board.next_pos)
          /\ add_shape_at(board, x[2], x[1], board.next_pos).layers # board.layers

\* C16: in a search started from the empty board, at every placement attempt
\* next_pos is the first empty cell of the board in (layer, row, col) order.
C16_NextPosFirstEmpty ==
    (pc = "loop" /\ IsSome(next_piece))
        => /\ board.next_pos \in DOMAIN board.layers
           /\ board.layers[board.next_pos] = EMPTY_SLOT
           /\ \A p \in DOMAIN board.layers :
                 PosLess(p, board.next_pos) => board.layers[p] # EMPTY_SLOT

C16_Witness ==
    /\ pc = "loop"
    /\ Len(printed) >= 1
    /\ Len(placements.positions) = 1
    /\ Cardinality(DOMAIN Pieces) = 3
    /\ next_piece.name = 3
    /\ board.next_pos # <<0, 0, 0>>

\* ---- the piece catalog, as main shows it with --display-pieces ----

\* The printed records of pieces that were found.
Displayed == { printed[i] : i \in { j \in DOMAIN printed : printed[j].found } }

\* The orientation list of a catalog piece, computed again from its base shape.
Recomputed(name) == generate_orientations(Scenarios[scenario].bases[name])

OrientationListIsCanonical(orientations, again) ==
    /\ \A i, j \in DOMAIN orientations : orientations[i] = orientations[j] => i = j
    /\ \A i \in DOMAIN orientations : snap_to_top_left(orientations[i]) = orientations[i]
    /\ Len(again) = Len(orientations)

\* C17: the orientation list of every catalog piece holds no two equal shapes,
\* every element of it is normalized (snap_to_top_left leaves it unchanged), and
\* computing the list again gives a list of the same length.
C17_OrientationListCanonical ==
    \A d \in Displayed : OrientationListIsCanonical(Pieces[d.name], Recomputed(d.name))

\* A piece with erected orientations in its list has been displayed.
C17_Witness ==
    \E d \in Displayed : d.shape.is_3d /\ Len(Pieces[d.name]) > 8

\* The base shape of a catalog piece.
BaseOf(name) == Scenarios[scenario].bases[name]

FlatOrientations(orientations) ==
    { orientations[i] : i \in { j \in DOMAIN orientations : ~orientations[j].is_3d } }

\* Plane geometry on sets of <<row, col>> cells: a quarter turn, the reflection
\* in the diagonal, and the translation that puts the bounding box at the origin.
QuarterTurn(cells) == { <<p[2], 0 - p[1]>> : p \in cells }

Transpose(cells) == { <<p[2], p[1]>> : p \in cells }

AtOrigin(cells) ==
    LET row0 == CHOOSE r \in { p[1] : p \in cells } : \A p \in cells : r <= p[1]
        col0 == CHOOSE c \in { p[2] : p \in cells } : \A p \in cells : c <= p[2]
    IN  { <<p[1] - row0, p[2] - col0>> : p \in cells }

Turns(cells) ==
    { AtOrigin(cells), AtOrigin(QuarterTurn(cells)),
      AtOrigin(QuarterTurn(QuarterTurn(cells))),
      AtOrigin(QuarterTurn(QuarterTurn(QuarterTurn(cells)))) }

\* The images of a base shape under the four rotations and their reflections.
Images(cells) == Turns(cells) \cup Turns(Transpose(cells))

\* A base shape without symmetry: its eight images are pairwise different.
Asymmetric(cells) == Cardinality(Images(cells)) = 8

C19_OrientationOrderReproducible ==
    \A d \in Displayed :
        /\ \A i, j \in DOMAIN Pieces[d.name] :
              i < j => ~IntLess(to_int(Pieces[d.name][j]), to_int(Pieces[d.name][i]))
        /\ \A i, j \in DOMAIN Pieces[d.name] :
              to_int(Pieces[d.name][i]) = to_int(Pieces[d.name][j]) => i = j
        /\ orientations_get(Pieces[d.name], d.orientation_index) = { d.shape }

\* ---- the two sides of the stop comparison ----

\* C20: the path string of the cursor stack has one token per placement, each a
\* letter, '[', the orientation index as two digits with a leading zero, ']',
\* in the format of the string built from the stop path: the same sequence of
\* pieces and orientations gives equal strings on both sides.
C20_SamePathFormat ==
    placements.positions # <<>> =>
        /\ Len(placements_to_string(placements.positions)) = 7 * Len(placements.positions)
        /\ placements_to_string(placements.positions)
             = convert_requested_pieces_to_path_string(placements.positions)

\* ---- malformed initial states ----

\* The cells of the initial state that hold the letter.
InitialCells(name) == { p \in DOMAIN initial_state : initial_state[p] = name }

\* A piece of the initial state that reaches beyond the board.
OffBoard(name) == InitialCells(name) # {} /\ ~(InitialCells(name) \subseteq BoardCells(Dims))

\* Every piece of the initial state is in an orientation of the catalog.
InitialPiecesRecognized ==
    \A n \in DOMAIN Pieces :
        \/ Shape_parse(initial_state, n) = NoShape
        \/ orientation_position(Pieces, n, Shape_parse(initial_state, n)) # -1

\* C21: when a piece of the initial state does not fit on the board where it
\* was found, initialization ends in a panic: the loop is not entered, nothing
\* is searched and nothing is reported.
C21_InitialMisfitAborts ==
    (pc # "start" /\ \E n \in DOMAIN Pieces : OffBoard(n)) =>
        /\ pc = "panicked"
        /\ solutions = 0
        /\ printed = <<>>

\* Initialization has panicked on a recognized piece that reaches beyond the
\* board, after an earlier piece was put on the board.
C21_Witness ==
    /\ pc = "panicked"
    /\ InitialPiecesRecognized
    /\ \E n \in DOMAIN Pieces : OffBoard(n)
    /\ board.layers # Default(Dims)

\* The last k records of the stack, the most recently placed first.
LastPlacedFirst(positions, k) ==
    [i \in 1..k |-> positions[Len(positions) + 1 - i]]

\* What a call that returns a candidate after popping records leaves behind.
PoppedAreToRemove(pl, result) ==
    LET k == Len(pl.positions) - Len(result.placements.positions)
    IN  /\ k >= 0
        /\ result.placements.positions = SubSeq(pl.positions, 1, Len(pl.positions) - k)
        /\ result.to_remove = LastPlacedFirst(pl.positions, k)
        /\ result.placements.used_letters = NamesInStack(result.placements.positions)
        /\ result.piece.name \notin result.placements.used_letters

\* C23: when get_next_piece_to_try_after_failure returns a candidate after
\* popping k >= 0 records, to_remove holds exactly those k records, each once,
\* from the most recently placed to the earliest placed, and the name of the
\* candidate is not in the used set the call leaves.
C23_ToRemoveIsThePopped ==
    pc = "loop"
        => \A f \in FailedCandidates :
              IsSome(get_next_piece_to_try_after_failure(Pieces, placements, f).piece)
                 => PoppedAreToRemove(placements,
                        get_next_piece_to_try_after_failure(Pieces, placements, f))

\* The candidate of the loop fails with two records to pop before the next one.
C23_Witness ==
    /\ pc = "loop"
    /\ IsSome(next_piece)
    /\ ~does_shape_fit(Dims, board,
                       get_piece_orientation(Pieces, next_piece.name,
                                             next_piece.orientation_index))
    /\ IsSome(get_next_piece_to_try_after_failure(Pieces, placements, next_piece).piece)
    /\ Len(get_next_piece_to_try_after_failure(Pieces, placements, next_piece).to_remove) >= 2

\* C24: after any sequence of cursor operations driven by the solver (success,
\* failure, remove_last_piece) the used set is the set of names of the records
\* in the stack, no name is twice in the stack, and the stack is never deeper
\* than the catalog has pieces (at most twelve).
C24_UsedSetIsStackNames ==
    Running =>
        /\ placements.used_letters = NamesInStack(placements.positions)
        /\ \A i, j \in DOMAIN placements.positions :
              placements.positions[i].name = placements.positions[j].name => i = j
        /\ Len(placements.positions) <= Cardinality(DOMAIN Pieces)
        /\ Cardinality(DOMAIN Pieces) < NAME_LIMIT

\* A solution was reported, its last record taken off by remove_last_piece, and
\* the cursor went on from a stack that still holds a record.
C24_Witness ==
    /\ pc = "loop"
    /\ solutions >= 1
    /\ placements.positions # <<>>
    /\ IsSome(next_piece)
    /\ next_piece.name \in NamesInStack(printed[Len(printed)].positions)

\* C25: whenever the cursor has returned a candidate the board is not solved,
\* so the solved check made only when no candidate remains misses no solved
\* board: the driver never stands on a solved board that it has neither
\* reported (and stepped back from) nor ended the run on at the stop path.
C25_SolvedOnlyWithoutCandidate ==
    Running =>
        /\ IsSome(next_piece) => ~solved(board)
        /\ solved(board) =>
              /\ pc = "done"
              /\ ~within_ending_at(placements_to_string(placements.positions),
                                   ending_at_placement)

\* ---- the board operations, continued ----

AnchorIsFilled(name, shape, offs) ==
    /\ <<0, offs[1], offs[2]>> \in shape.cells
    /\ board.layers[board.next_pos] = EMPTY_SLOT
    /\ add_shape(board, shape, name).layers[board.next_pos] = name

\* C26: every successful placement at next_pos fills the next_pos cell itself:
\* the first occupied layer-0 cell of the shape in row-major order, its offset,
\* goes onto the anchor, so after the add the former next_pos is not empty.
C26_PlacementFillsAnchor ==
    (pc = "loop" /\ IsSome(next_piece))
        => \A x \in CatalogShapes :
              (x[1] \notin NamesOnBoard(board.layers) /\ does_shape_fit(Dims, board, x[2]))
                 => AnchorIsFilled(x[1], x[2], calculate_shape_offsets(x[2]))

\* The candidate fits, and its first occupied cell is not the corner of its grid.
C26_Witness ==
    /\ pc = "loop"
    /\ IsSome(next_piece)
    /\ board.next_pos # <<0, 0, 0>>
    /\ calculate_shape_offsets(
          get_piece_orientation(Pieces, next_piece.name, next_piece.orientation_index))[2] > 0
    /\ does_shape_fit(Dims, board,
                      get_piece_orientation(Pieces, next_piece.name, next_piece.orientation_index))

CellsOf(name) == { p \in DOMAIN board.layers : board.layers[p] = name }

RemovalClearsExactly(name, removed) ==
    /\ DOMAIN removed.layers = DOMAIN board.layers
    /\ \A p \in CellsOf(name) : removed.layers[p] = EMPTY_SLOT
    /\ \A p \in DOMAIN board.layers \ CellsOf(name) : removed.layers[p] = board.layers[p]
    /\ removed.next_pos \in CellsOf(name)
    /\ \A p \in CellsOf(name) : ~PosLess(p, removed.next_pos)

\* C27: remove_shape(name) empties exactly the cells that hold name, in all
\* layers, leaves every other cell as it was, and sets next_pos to the first
\* cleared cell in layer, row, column order.
C27_RemoveClearsExactly ==
    Running => \A n \in NamesOnBoard(board.layers) :
                  RemovalClearsExactly(n, remove_shape(board, n))

\* Two pieces are on the pyramid, one of them standing in two layers.
C27_Witness ==
    /\ pc = "loop"
    /\ layer_count(Dims) = 3
    /\ Cardinality(NamesOnBoard(board.layers)) = 2
    /\ \E n \in NamesOnBoard(board.layers) :
          /\ \E p \in CellsOf(n) : p[1] = 0
          /\ \E p \in CellsOf(n) : p[1] = 1

\* The names remove_shape can be called with that are not on the board.
AbsentNames == (1..NAME_LIMIT) \ NamesOnBoard(board.layers)

\* C28: remove_shape(name) for a name that is not on the board changes
\* nothing: every cell and next_pos keep their values.
C28_RemoveAbsentIsNoOp ==
    Running => \A n \in AbsentNames : remove_shape(board, n) = board

\* A piece is on the board, next_pos is past the first cell, and a piece of
\* the catalog is not on the board.
C28_Witness ==
    /\ pc = "loop"
    /\ NamesOnBoard(board.layers) # {}
    /\ board.next_pos # <<0, 0, 0>>
    /\ AbsentNames \cap DOMAIN Pieces # {}

\* ---- the order of the search ----

\* The context handed to the board: the cursor stack followed by the candidate.
Context == Append(placements.positions, next_piece)

\* C22: no search context is revisited. From one loop iteration to the next the
\* context (the stack followed by the candidate, as (name, orientation index)
\* pairs) grows strictly in lexicographic order, so over the whole run the
\* contexts are strictly increasing and none is handed to the board twice.
C22_ContextsIncrease ==
    [][(pc = "loop" /\ IsSome(next_piece) /\ pc' = "loop" /\ IsSome(next_piece'))
          => TokenLess(Context, Context')]_vars

\* The search goes on after a solution was reported and records were popped.
C22_Witness ==
    /\ pc = "loop"
    /\ IsSome(next_piece)
    /\ Len(printed) >= 1
    /\ Len(placements.positions) + 1 < Cardinality(DOMAIN Pieces)

\* ---- the shapes of the catalog ----

OccupiedLayers(shape) == { p[1] : p \in shape.cells }

\* The occupied layers are 0, 1, ..., up to some layer, with none left out.
ContiguousFromGround(shape) ==
    /\ 0 \in OccupiedLayers(shape)
    /\ \A k \in OccupiedLayers(shape) : \A j \in 0..k : j \in OccupiedLayers(shape)

\* C29: in every orientation of the catalog the occupied layers are a
\* contiguous range that starts at layer 0: layer 0 holds a cell, and above an
\* empty layer every layer is empty.
C29_LayersContiguous ==
    \A d \in Displayed :
        \A i \in DOMAIN Pieces[d.name] : ContiguousFromGround(Pieces[d.name][i])

\* An orientation standing in four layers has been displayed.
C29_Witness ==
    \E d \in Displayed : OccupiedLayers(d.shape) = 0..3

\* C30: every orientation generated for a piece has as many occupied cells as
\* the base shape of the piece: rotate, reflect, snap_to_top_left and erect
\* neither lose a cell nor make two of one.
C30_CellCountPreserved ==
    \A d \in Displayed :
        \A i \in DOMAIN Pieces[d.name] :
            Cardinality(Pieces[d.name][i].cells) = Cardinality(BaseOf(d.name))

\* An erected orientation of a piece of five cells has been displayed.
C30_Witness ==
    \E d \in Displayed :
        /\ d.shape.is_3d
        /\ Cardinality(BaseOf(d.name)) = 5
        /\ Cardinality(OccupiedLayers(d.shape)) >= 3

\* ---- the Shape methods ----

\* The least row and the least column occupied in any layer.
TopRow(cells) == CHOOSE r \in { p[2] : p \in cells } : \A p \in cells : r <= p[2]

LeftColumn(cells) == CHOOSE c \in { p[3] : p \in cells } : \A p \in cells : c <= p[3]

\* The shape moved as a whole, every layer by the same rows and columns, until
\* its top row and its left column hold a cell.
MovedToTopLeft(cells) ==
    { <<p[1], p[2] - TopRow(cells), p[3] - LeftColumn(cells)>> : p \in cells }

\* C31: snap_to_top_left returns the shape translated as a whole, all layers by
\* the same rows and columns and no cell wrapping around an edge, by the
\* smallest shifts after which the top row and the left column, each taken
\* across all layers, hold an occupied cell; is_3d is unchanged.
C31_SnapIsTranslation ==
    (shaping.op = "snap_to_top_left" /\ pc # "panicked")
        => /\ shaping.output.cells = MovedToTopLeft(shaping.input.cells)
           /\ shaping.output.cells \subseteq AllShapeCells
           /\ \E p \in shaping.output.cells : p[2] = 0
           /\ \E p \in shaping.output.cells : p[3] = 0
           /\ shaping.output.is_3d = shaping.input.is_3d

\* A 3-D shape was snapped that had neither its top row nor its left column
\* occupied, and whose bottom layer alone would have allowed a larger shift.
C31_Witness ==
    /\ shaping.op = "snap_to_top_left"
    /\ pc = "shape"
    /\ shaping.input.is_3d
    /\ TopRow(shaping.input.cells) > 0
    /\ LeftColumn(shaping.input.cells) > 0
    /\ \A p \in shaping.input.cells : p[1] = 0 => p[3] > LeftColumn(shaping.input.cells)

\* C32: the shift loop of snap_to_top_left and erect never runs out of its
\* 4 x 5 = 20 iterations on a shape with at least one occupied cell derived
\* from the catalog; it panics only on a malformed shape, the one with no
\* occupied cell.
C32_ShiftBudgetSuffices ==
    /\ pc = "panicked" => shaping.input.cells = {}
    /\ (shaping.op \in { "snap_to_top_left", "erect" } /\ shaping.input.cells = {})
          => pc = "panicked"

\* A flat shape was erected after the longest down-shift a catalog shape needs:
\* the result stands in four layers.
C32_Witness ==
    /\ shaping.op = "erect"
    /\ pc = "shape"
    /\ ~shaping.input.is_3d
    /\ TopRow(shaping.input.cells) > 0
    /\ \E p \in shaping.output.cells : p[1] = 3

\* C33: rotate maps, independently in every layer of side size, the cell at
\* (r, c) to (c, size - 1 - r), a quarter turn clockwise, and leaves is_3d
\* unchanged.
C33_RotateIsClockwise ==
    shaping.op = "rotate"
        => /\ shaping.output.cells =
                { <<p[1], p[3], ShapeLayerSize(p[1]) - 1 - p[2]>> : p \in shaping.input.cells }
           /\ shaping.output.is_3d = shaping.input.is_3d

\* A flat shape with no symmetry under a half turn was rotated: the cell of its
\* top-left corner went to the top-right corner.
C33_Witness ==
    /\ shaping.op = "rotate"
    /\ ~shaping.input.is_3d
    /\ <<0, 0, 0>> \in shaping.input.cells
    /\ <<0, 0, ShapeLayerSize(0) - 1>> \in shaping.output.cells
    /\ <<0, ShapeLayerSize(0) - 1, 0>> \notin shaping.output.cells
    /\ Cardinality(shaping.input.cells) > 1

\* C34: reflect transposes every layer, mapping the cell at (r, c) to (c, r),
\* and leaves is_3d unchanged.
C34_ReflectIsTranspose ==
    shaping.op = "reflect"
        => /\ shaping.output.cells = { <<p[1], p[3], p[2]>> : p \in shaping.input.cells }
           /\ shaping.output.is_3d = shaping.input.is_3d

\* A shape that is not its own transpose was reflected, with cells in more
\* than one layer.
C34_Witness ==
    /\ shaping.op = "reflect"
    /\ shaping.input.is_3d
    /\ shaping.output # shaping.input
    /\ \E p \in shaping.input.cells : p[1] > 0 /\ p[2] # p[3]

\* C35: four applications of rotate return the shape they started from, flat
\* or 3-D: three more after the one just applied give back its input.
C35_FourRotationsAreIdentity ==
    shaping.op = "rotate"
        => rotate(rotate(rotate(shaping.output))) = shaping.input

\* A 3-D shape with cells off the centre of a smaller layer was rotated, and
\* neither one nor two quarter turns give the shape back.
C35_Witness ==
    /\ shaping.op = "rotate"
    /\ shaping.input.is_3d
    /\ \E p \in shaping.input.cells : p[1] > 0
    /\ shaping.output # shaping.input
    /\ rotate(shaping.output) # shaping.input

DownBy(cells, d) == { <<p[1], p[2] + d, p[3]>> : p \in cells }

\* A cell of the first layer stands just right of the top-left to bottom-right
\* diagonal.
OnSuperDiagonal(cells) == \E p \in cells : p[1] = 0 /\ p[3] = p[2] + 1

\* The alignment erect works on: the shape in the top-left corner, moved down
\* by the least number of rows that leaves no cell right of the diagonal.
AlignedForErect(cells) ==
    DownBy(MovedToTopLeft(cells),
           CHOOSE d \in 0..(ShapeLayerSize(0) - 1) :
               /\ ~OnSuperDiagonal(DownBy(MovedToTopLeft(cells), d))
               /\ \A e \in 0..(d - 1) : OnSuperDiagonal(DownBy(MovedToTopLeft(cells), e)))

BaseLayer(cells) == { p \in cells : p[1] = 0 }

\* C36 as stated: erect of a flat shape keeps on layer 0 exactly the cells of
\* the aligned shape that lie on an anti-diagonal (row + column constant).
C36_BaseIsAntiDiagonal ==
    (shaping.op = "erect" /\ pc = "shape" /\ ~shaping.input.is_3d)
        => \E d \in 0..(2 * (ShapeLayerSize(0) - 1)) :
              BaseLayer(shaping.output.cells) =
                  { p \in AlignedForErect(shaping.input.cells) : p[2] + p[3] = d }

\* C36, amended: erect of a flat shape keeps on layer 0 exactly the cells of
\* the aligned shape on the main diagonal (row = column, top-left to
\* bottom-right) and promotes the cell at (r, c) of the diagonal k = r - c
\* below it to (c, c) of layer k, producing a 3-D shape; erect of a shape that
\* is already 3-D returns an equal copy.
C36_BaseIsMainDiagonal ==
    (shaping.op = "erect" /\ pc = "shape")
        => IF shaping.input.is_3d
           THEN shaping.output = shaping.input
           ELSE /\ shaping.output.is_3d
                /\ \A p \in AlignedForErect(shaping.input.cells) : p[2] >= p[3]
                /\ shaping.output.cells =
                     { <<p[2] - p[3], p[3], p[3]>> : p \in AlignedForErect(shaping.input.cells) }
                /\ BaseLayer(shaping.output.cells) =
                     { p \in AlignedForErect(shaping.input.cells) : p[2] = p[3] }

\* A flat shape was erected whose base keeps two cells of the main diagonal
\* and whose other cells rise to the second layer and beyond.
C36_Witness ==
    /\ shaping.op = "erect"
    /\ pc = "shape"
    /\ ~shaping.input.is_3d
    /\ Cardinality(BaseLayer(shaping.output.cells)) >= 2
    /\ \E p \in shaping.output.cells : p[1] >= 2
    /\ OnSuperDiagonal(MovedToTopLeft(shaping.input.cells))

\* ---- placing a shape ----

Candidate == get_piece_orientation(Pieces, next_piece.name, next_piece.orientation_index)

\* C37: for every catalog orientation and every anchor at which does_shape_fit
\* returned true, add_shape computes each target index without an intermediate
\* value below zero: the program never stops on an unsigned underflow, and no
\* candidate that fits has a cell above or left of its offset cell.
C37_TargetIndicesNeverUnderflow ==
    /\ pc # "overflowed"
    /\ (pc = "loop" /\ IsSome(next_piece) /\ does_shape_fit(Dims, board, Candidate))
          => ~add_shape_overflows(Candidate)

FlatBoard == layer_count(Dims) = 1

ReportedShapes ==
    { get_piece_orientation(Pieces, printed[i].positions[j].name,
                            printed[i].positions[j].orientation_index) :
        <<i, j>> \in { x \in (DOMAIN printed) \X (1..NAME_LIMIT) :
                         x[2] \in DOMAIN printed[x[1]].positions } }

\* C38: on the rectangular board, which has one layer, the fit check rejects
\* every erected orientation of the catalog at every anchor, whatever is on the
\* board, so every piece of a reported rectangle solution is in a flat
\* orientation.
C38_RectangleRejectsErected ==
    (Running /\ FlatBoard)
        => /\ \A x \in CatalogShapes :
                 x[2].is_3d
                    => \A pos \in DOMAIN board.layers :
                          ~does_shape_fit_at(Dims, board, x[2], pos)
           /\ \A shape \in ReportedShapes : ~shape.is_3d

\* A rectangle solution has been reported and the search goes on with an
\* erected candidate at an anchor away from the corner.
C38_Witness ==
    /\ pc = "loop"
    /\ FlatBoard
    /\ solutions > 0
    /\ IsSome(next_piece)
    /\ Candidate.is_3d
    /\ board.next_pos # <<0, 0, 0>>
    /\ ReportedShapes # {}

\* ---- the command line ----

\* The number written by the two digits of a token X[dd].
TwoDigits(token) == 10 * (token[3] - 48) + (token[4] - 48)

\* C39: parsing a token X[dd] yields the name X and the orientation index dd
\* read as a two-digit decimal number, so the stop path string built from the
\* parsed value is the token followed by "; ".
C39_TokenRoundTrip ==
    /\ (pc # "args" /\ args # <<>>)
          => \A i \in DOMAIN args :
                /\ Char(ending_at[i].name) = args[i][1]
                /\ ending_at[i].orientation_index = TwoDigits(args[i])
    /\ (pc \notin { "args", "start" } /\ args # <<>>)
          => ending_at_placement = Concat([i \in DOMAIN args |-> args[i] \o <<59, 32>>])

=============================================================================
